---- MODULE Spec2Model ----
(***************************************************************************)
(* Model of the Trackman data pipeline:                                    *)
(*   Scripts/csv_to_db.py          discovery, cleaning and batched load    *)
(*   Scripts/ftp_csv_downloader.py nightly FTP download                    *)
(* File names and Time values are sequences of one-character strings, so   *)
(* that lower-casing, substring tests and strptime are computed.           *)
(***************************************************************************)
EXTENDS Integers, Sequences, FiniteSets, TLC

VARIABLES
    \* ---- csv_to_db.main
    pc,          \* position in main: start, discover, file, batch_end, summary, done
    rootState,   \* the root directory: ok, missing, unreadable
    listing,     \* the file names under the root, in os.walk order
    dbUp,        \* whether the destination accepts connections
    csv_files,   \* main's csv_files
    idx,         \* 1-based index of the next file of csv_files
    total_rows,  \* main's total_rows
    log,         \* the logging calls made so far, in order
    hist,        \* per processed file: what was read, cleaned, attempted, added
    dbRows,      \* rows committed in the destination table
    \* ---- csv_to_db.clean_data
    cpc,         \* raw, cleaned
    df,          \* the parsed table handed to clean_data (its Time/GameID/PitchNo)
    cleaned,     \* the table clean_data returns
    \* ---- ftp_csv_downloader
    fpc,         \* idle, listed, loop, log
    remote,      \* names the server lists in the remote directory
    localDir,    \* local file name -> absent, partial, complete
    local_files, \* download_new_files' snapshot of os.listdir
    remote_csvs, \* main's remote_csvs
    fidx,        \* 1-based index of the next name of remote_csvs
    downloaded,  \* downloaded_count
    runs,        \* number of runs started
    ftpLog,      \* what the runs printed and logged
    skipped      \* names printed as "Already exists", with the local state then

loaderVars == <<pc, rootState, listing, dbUp, csv_files, idx, total_rows, log, hist, dbRows>>
cleanVars == <<cpc, df, cleaned>>
ftpVars == <<fpc, remote, localDir, local_files, remote_csvs, fidx, downloaded, runs,
             ftpLog, skipped>>
vars == <<loaderVars, cleanVars, ftpVars>>

\* ------------------------------------------------------------------ bounds
MaxDirFiles == 2    \* files under the root in the scanner specification
MaxFiles == 3       \* files under the root in the loader specification
MaxRows == 1        \* rows of one CSV file in the loader specification
MaxTableRows == 2   \* rows of the table handed to clean_data
MaxRuns == 3        \* runs of the FTP downloader

\* ------------------------------------------------------------------ strings
UpperChars == <<"A","B","C","D","E","F","G","H","I","J","K","L","M",
                "N","O","P","Q","R","S","T","U","V","W","X","Y","Z">>
LowerChars == <<"a","b","c","d","e","f","g","h","i","j","k","l","m",
                "n","o","p","q","r","s","t","u","v","w","x","y","z">>

LowerChar(c) ==
    IF \E i \in DOMAIN UpperChars : UpperChars[i] = c
    THEN LowerChars[CHOOSE i \in DOMAIN UpperChars : UpperChars[i] = c]
    ELSE c

\* str.lower()
Lower(s) == [i \in 1..Len(s) |-> LowerChar(s[i])]

\* sub in s
Contains(s, sub) ==
    \E k \in 0..(Len(s) - Len(sub)) : \A j \in 1..Len(sub) : s[k + j] = sub[j]

\* s.endswith(suf)
EndsWith(s, suf) ==
    /\ Len(s) >= Len(suf)
    /\ \A j \in 1..Len(suf) : s[Len(s) - Len(suf) + j] = suf[j]

MarkUnverified == <<"u","n","v","e","r","i","f","i","e","d">>
MarkPlayerPositioning == <<"p","l","a","y","e","r","p","o","s","i","t","i","o","n","i","n","g">>
MarkPlayerTracking == <<"p","l","a","y","e","r","t","r","a","c","k","i","n","g">>
ExtCsv == <<".","c","s","v">>

\* name pieces the bounded directory listings are built from
Stem == <<"g","1">>
Sep == <<"_">>
UnverifiedMixed == <<"U","n","V","e","r","i","f","i","e","d">>
PlayerTrackingMixed == <<"P","l","a","y","e","r","T","r","a","c","k","i","n","g">>
ExtCsvUpper == <<".","C","S","V">>
ExtTxt == <<".","t","x","t">>
ExtBak == <<".","b","a","k">>

FileNames ==
    { Stem \o ExtCsv,
      <<"G","1">> \o ExtCsvUpper,
      Stem \o Sep \o MarkUnverified \o ExtCsv,
      Stem \o Sep \o UnverifiedMixed \o ExtCsv,
      Stem \o Sep \o MarkPlayerPositioning \o ExtCsv,
      Stem \o Sep \o PlayerTrackingMixed \o ExtCsv,
      UnverifiedMixed \o Sep \o MarkPlayerTracking \o ExtCsv,
      MarkPlayerTracking \o Sep \o MarkUnverified \o ExtTxt,
      Stem \o ExtTxt,
      MarkUnverified \o ExtTxt,
      MarkPlayerTracking \o ExtTxt,
      Stem \o ExtCsv \o ExtBak,
      <<"c","s","v">> }

LoaderNames ==
    { Stem \o ExtCsv,
      Stem \o Sep \o UnverifiedMixed \o ExtCsv,
      Stem \o ExtTxt }

SeqsUpTo(S, n) == UNION { [1..k -> S] : k \in 0..n }

\* ------------------------------------------------------------------ list_csv_files
IsUnverified(filename) == Contains(Lower(filename), MarkUnverified)

IsPlayerData(filename) ==
    \/ Contains(Lower(filename), MarkPlayerPositioning)
    \/ Contains(Lower(filename), MarkPlayerTracking)

IsCsv(filename) == EndsWith(Lower(filename), ExtCsv)

\* a bug: the player-tracking test made before the unverified test
ClassifyPlayerFirst(filename) ==
    IF IsPlayerData(filename) THEN "player_pos"
    ELSE IF IsUnverified(filename) THEN "unverified"
    ELSE IF IsCsv(filename) THEN "csv"
    ELSE "none"

\* the branch of the loop body a file name takes
Classify(filename) ==
    IF IsUnverified(filename) THEN "unverified"
    ELSE IF IsPlayerData(filename) THEN "player_pos"
    ELSE IF IsCsv(filename) THEN "csv"
    ELSE "none"

\* os.walk(root_dir) with the default onerror=None: an error of the directory
\* scan is ignored and the walk yields nothing
Walk(root, names) == IF root = "ok" THEN names ELSE <<>>

ScanStart == [csv_files |-> <<>>, unverified |-> 0, player_pos |-> 0, total |-> 0]

RECURSIVE ScanFrom(_, _, _)
ScanFrom(filenames, i, acc) ==
    IF i > Len(filenames) THEN acc
    ELSE LET c == Classify(filenames[i]) IN
         ScanFrom(filenames, i + 1,
            IF c = "unverified" THEN [acc EXCEPT !.unverified = @ + 1]
            ELSE IF c = "player_pos" THEN [acc EXCEPT !.player_pos = @ + 1]
            ELSE IF c = "csv"
                 THEN [acc EXCEPT !.csv_files = Append(@, filenames[i]), !.total = @ + 1]
            ELSE acc)

ListCsvFiles(root, names) == ScanFrom(Walk(root, names), 1, ScanStart)

Entry(kind, file, n, m) == [kind |-> kind, file |-> file, n |-> n, m |-> m]

ScanLog(res) ==
    << Entry("files_skipped", 0, res.unverified, res.player_pos),
       Entry("total_csv", 0, res.total, 0) >>

\* ------------------------------------------------------------------ exceptions
\* isinstance(e, base) for the exception classes the loader can meet
IsInstance(cls, base) ==
    CASE base = "IntegrityError" -> cls = "IntegrityError"
      [] base = "SQLAlchemyError" ->
            cls \in {"SQLAlchemyError", "IntegrityError", "OperationalError"}
      [] base = "Exception" -> cls # "none"
      [] OTHER -> FALSE

\* what df.to_sql raises: the class, what the store rejected, and whether the
\* driver's message holds "The duplicate key value is (...)"
NoExc == [cls |-> "none", cause |-> "none", exposesKey |-> FALSE]
UniqueExposed == [cls |-> "IntegrityError", cause |-> "unique", exposesKey |-> TRUE]
UniqueHidden == [cls |-> "IntegrityError", cause |-> "unique", exposesKey |-> FALSE]
NotNullViolation == [cls |-> "IntegrityError", cause |-> "not_null", exposesKey |-> FALSE]
ConnectFailed == [cls |-> "OperationalError", cause |-> "connect", exposesKey |-> FALSE]
StatementFailed == [cls |-> "OperationalError", cause |-> "statement", exposesKey |-> FALSE]
NotStorage == [cls |-> "ValueError", cause |-> "other", exposesKey |-> FALSE]

\* the engine is created lazily: the first connection is opened by to_sql
ToSqlOutcomes(up) ==
    IF up THEN {NoExc, UniqueExposed, UniqueHidden, NotNullViolation, StatementFailed, NotStorage}
    ELSE {ConnectFailed}

\* ------------------------------------------------------------------ insert_to_db
\* a bug: the SQLAlchemyError clause placed before the IntegrityError clause
InsertHandlerBaseFirst(exc) ==
    IF IsInstance(exc.cls, "SQLAlchemyError") THEN "sqlalchemy_error"
    ELSE IF IsInstance(exc.cls, "IntegrityError")
         THEN (IF exc.exposesKey THEN "integrity_dupkey" ELSE "integrity_raw")
    ELSE IF IsInstance(exc.cls, "Exception") THEN "unhandled_error"
    ELSE "propagates"

\* the except clause that takes an exception of to_sql, named by what it logs
InsertHandler(exc) ==
    IF IsInstance(exc.cls, "IntegrityError")
    THEN (IF exc.exposesKey THEN "integrity_dupkey" ELSE "integrity_raw")
    ELSE IF IsInstance(exc.cls, "SQLAlchemyError") THEN "sqlalchemy_error"
    ELSE IF IsInstance(exc.cls, "Exception") THEN "unhandled_error"
    ELSE "propagates"

\* insert_to_db(df, table, engine, file_path): one to_sql call, which commits
\* all rows or none
InsertToDb(file, nrows, exc) ==
    IF exc.cls = "none"
    THEN [entries |-> <<Entry("inserted", file, nrows, 0)>>, committed |-> nrows,
          kind |-> "inserted", raised |-> "none"]
    ELSE IF InsertHandler(exc) = "propagates"
    THEN [entries |-> <<>>, committed |-> 0, kind |-> "propagates", raised |-> exc.cls]
    ELSE [entries |-> <<Entry(InsertHandler(exc), file, 0, 0)>>, committed |-> 0,
          kind |-> InsertHandler(exc), raised |-> "none"]

\* ------------------------------------------------------------------ main
BatchSize == 100

Levels == {"D1", "NCAA", "d1"}

\* what pd.read_csv finds in a file
Frames ==
    [readable : BOOLEAN, hasLevel : BOOLEAN, level : Levels, hasGameID : BOOLEAN,
     nrows : 0..MaxRows]

\* pd.read_csv(file_path)
ReadCsv(frame) == IF frame.readable THEN "none" ELSE "ParserError"

\* df['Level'].iloc[0]
FirstLevel(frame) ==
    IF ~frame.hasLevel THEN [exc |-> "KeyError", value |-> ""]
    ELSE IF frame.nrows = 0 THEN [exc |-> "IndexError", value |-> ""]
    ELSE [exc |-> "none", value |-> frame.level]

\* a bug: only the one level seen in testing is skipped
SkipsLevelNcaaOnly(level) == level = "NCAA"

\* df['Level'].iloc[0] != 'D1'
SkipsLevel(level) == level # "D1"

\* clean_data raises when a column it reads is missing
CleanRaises(frame) == IF frame.hasGameID THEN "none" ELSE "KeyError"

\* a bug: the per-file handler narrowed to parse errors
InnerCatchesParseOnly(cls) == cls = "ParserError"

\* except Exception, around one file
InnerCatches(cls) == IsInstance(cls, "Exception")

\* a bug: the empty list is not told apart
NoFilesNever(files) == FALSE

\* not csv_files
NoFiles(files) == files = <<>>

Step(file, level, cleanCalled, insertCalled, exc, kind, rows, added, committed) ==
    [file |-> file, level |-> level, cleanCalled |-> cleanCalled,
     insertCalled |-> insertCalled, exc |-> exc, kind |-> kind, rows |-> rows,
     added |-> added, committed |-> committed]

\* an exception raised in the body of the per-file try
Raised(file, cls, level, cleanCalled, insertCalled, exc) ==
    IF InnerCatches(cls)
    THEN [entries |-> <<Entry("error_reading", file, 0, 0)>>, fatal |-> FALSE,
          h |-> Step(file, level, cleanCalled, insertCalled, exc, "error_reading", 0, 0, 0)]
    ELSE [entries |-> <<Entry("fatal", 0, 0, 0)>>, fatal |-> TRUE,
          h |-> Step(file, level, cleanCalled, insertCalled, exc, "fatal", 0, 0, 0)]

\* one iteration of "for file_path in batch"
ProcessOne(file, frame, exc) ==
    IF ReadCsv(frame) # "none"
    THEN Raised(file, ReadCsv(frame), "", FALSE, FALSE, NoExc)
    ELSE IF FirstLevel(frame).exc # "none"
    THEN Raised(file, FirstLevel(frame).exc, "", FALSE, FALSE, NoExc)
    ELSE IF SkipsLevel(FirstLevel(frame).value)
    THEN [entries |-> <<Entry("skipped_level", file, 0, 0)>>, fatal |-> FALSE,
          h |-> Step(file, FirstLevel(frame).value, FALSE, FALSE, NoExc,
                     "skipped_level", 0, 0, 0)]
    ELSE IF CleanRaises(frame) # "none"
    THEN Raised(file, CleanRaises(frame), FirstLevel(frame).value, TRUE, FALSE, NoExc)
    ELSE LET ins == InsertToDb(file, frame.nrows, exc) IN
         IF ins.raised # "none"
         THEN Raised(file, ins.raised, FirstLevel(frame).value, TRUE, TRUE, exc)
         ELSE [entries |-> ins.entries, fatal |-> FALSE,
               h |-> Step(file, FirstLevel(frame).value, TRUE, TRUE, exc, ins.kind,
                          frame.nrows, frame.nrows, ins.committed)]

\* whether the iteration reaches df.to_sql
ReachesInsert(frame) ==
    /\ ReadCsv(frame) = "none"
    /\ FirstLevel(frame).exc = "none"
    /\ ~SkipsLevel(FirstLevel(frame).value)
    /\ CleanRaises(frame) = "none"

\* lines 87-103: configuration and create_engine, which opens no connection
Start ==
    /\ pc = "start"
    /\ pc' = "discover"
    /\ UNCHANGED <<rootState, listing, dbUp, csv_files, idx, total_rows, log, hist, dbRows>>
    /\ UNCHANGED <<cleanVars, ftpVars>>

\* lines 106-113
Discover ==
    /\ pc = "discover"
    /\ LET res == ListCsvFiles(rootState, listing) IN
       /\ csv_files' = res.csv_files
       /\ IF NoFiles(res.csv_files)
          THEN /\ log' = log \o ScanLog(res) \o <<Entry("no_csv_found", 0, 0, 0)>>
               /\ pc' = "done"
          ELSE /\ log' = log \o ScanLog(res)
               /\ pc' = IF Len(res.csv_files) = 0 THEN "summary" ELSE "file"
    /\ idx' = 1
    /\ total_rows' = 0
    /\ UNCHANGED <<rootState, listing, dbUp, hist, dbRows>>
    /\ UNCHANGED <<cleanVars, ftpVars>>

\* lines 120-131, for csv_files[idx]
ProcessFile ==
    /\ pc = "file"
    /\ idx <= Len(csv_files)
    /\ \E frame \in Frames, exc \in ToSqlOutcomes(dbUp) :
          /\ ReachesInsert(frame) \/ exc = CHOOSE e \in ToSqlOutcomes(dbUp) : TRUE
          /\ LET r == ProcessOne(idx, frame, exc) IN
             /\ log' = log \o r.entries
             /\ hist' = Append(hist, r.h)
             /\ total_rows' = total_rows + r.h.added
             /\ dbRows' = dbRows + r.h.committed
             /\ pc' = IF r.fatal THEN "done"
                      ELSE IF idx % BatchSize = 0 \/ idx = Len(csv_files) THEN "batch_end"
                      ELSE "file"
    /\ idx' = idx + 1
    /\ UNCHANGED <<rootState, listing, dbUp, csv_files>>
    /\ UNCHANGED <<cleanVars, ftpVars>>

\* lines 133-134
EndBatch ==
    /\ pc = "batch_end"
    /\ log' = Append(log, Entry("batch_processed", 0, ((idx - 2) \div BatchSize) + 1, 0))
    /\ pc' = IF idx > Len(csv_files) THEN "summary" ELSE "file"
    /\ UNCHANGED <<rootState, listing, dbUp, csv_files, idx, total_rows, hist, dbRows>>
    /\ UNCHANGED <<cleanVars, ftpVars>>

\* lines 136-137
Complete ==
    /\ pc = "summary"
    /\ log' = Append(log, Entry("complete", 0, Len(csv_files), total_rows))
    /\ pc' = "done"
    /\ UNCHANGED <<rootState, listing, dbUp, csv_files, idx, total_rows, hist, dbRows>>
    /\ UNCHANGED <<cleanVars, ftpVars>>

\* list_csv_files(root_dir) on its own
ScanOnly ==
    /\ pc = "scan"
    /\ LET res == ListCsvFiles(rootState, listing) IN
       /\ csv_files' = res.csv_files
       /\ log' = log \o ScanLog(res)
    /\ pc' = "scanned"
    /\ UNCHANGED <<rootState, listing, dbUp, idx, total_rows, hist, dbRows>>
    /\ UNCHANGED <<cleanVars, ftpVars>>

\* ------------------------------------------------------------------ clean_data
Digits == <<"0","1","2","3","4","5","6","7","8","9">>
IsDigit(c) == \E i \in DOMAIN Digits : Digits[i] = c
DigitVal(c) == (CHOOSE i \in DOMAIN Digits : Digits[i] = c) - 1

\* the number of digits at s[pos..], at most maxw of them
DigitRun(s, pos, maxw) ==
    CHOOSE w \in 0..maxw :
        /\ \A j \in 0..(w - 1) : pos + j <= Len(s) /\ IsDigit(s[pos + j])
        /\ w = maxw \/ pos + w > Len(s) \/ ~IsDigit(s[pos + w])

RECURSIVE NumVal(_, _, _)
NumVal(s, pos, w) ==
    IF w = 0 THEN 0 ELSE NumVal(s, pos, w - 1) * 10 + DigitVal(s[pos + w - 1])

RECURSIVE Pow10(_)
Pow10(n) == IF n = 0 THEN 1 ELSE 10 * Pow10(n - 1)

NaT == [null |-> TRUE, h |-> 0, m |-> 0, s |-> 0, us |-> 0]
TimeOfDay(h, m, s, us) == [null |-> FALSE, h |-> h, m |-> m, s |-> s, us |-> us]

IsLit(s, pos, c) == pos <= Len(s) /\ s[pos] = c

\* strptime with '%H:%M:%S.%f' (frac) or '%H:%M:%S', the whole value matched;
\* errors='coerce' turns a failure into NaT
Strptime(s, frac) ==
    LET hw == DigitRun(s, 1, 2)
        mp == 1 + hw + 1
        mw == DigitRun(s, mp, 2)
        sp == mp + mw + 1
        sw == DigitRun(s, sp, 2)
        fp == sp + sw + 1
        fw == DigitRun(s, fp, 9)
        fk == IF fw > 6 THEN 6 ELSE fw
        h == NumVal(s, 1, hw)
        m == NumVal(s, mp, mw)
        sec == NumVal(s, sp, sw)
        hms == /\ hw >= 1 /\ IsLit(s, 1 + hw, ":")
               /\ mw >= 1 /\ IsLit(s, mp + mw, ":")
               /\ sw >= 1
               /\ h <= 23 /\ m <= 59 /\ sec <= 59
    IN IF ~frac
       THEN (IF hms /\ Len(s) = sp + sw - 1 THEN TimeOfDay(h, m, sec, 0) ELSE NaT)
       ELSE (IF hms /\ IsLit(s, sp + sw, ".") /\ fw >= 1 /\ Len(s) = fp + fw - 1
             THEN TimeOfDay(h, m, sec, NumVal(s, fp, fk) * Pow10(6 - fk))
             ELSE NaT)

Column(dtype, values) == [dtype |-> dtype, values |-> values]

\* pd.to_datetime(column, format=..., errors='coerce'): a column that already holds
\* datetimes is returned as it is, the format unused
ToDatetime(column, frac) ==
    IF column.dtype = "datetime64" THEN column
    ELSE Column("datetime64",
                [i \in DOMAIN column.values |-> Strptime(column.values[i], frac)])

\* column.fillna(other)
FillNa(column, other) ==
    Column(column.dtype,
           [i \in DOMAIN column.values |->
               IF column.values[i].null THEN other.values[i] ELSE column.values[i]])

Two(n) == <<Digits[(n \div 10) + 1], Digits[(n % 10) + 1]>>

RECURSIVE StrOfInt(_)
StrOfInt(n) == IF n < 10 THEN <<Digits[n + 1]>> ELSE StrOfInt(n \div 10) \o <<Digits[(n % 10) + 1]>>

Six(us) == Two(us \div 10000) \o Two((us \div 100) % 100) \o Two(us % 100)

\* str() of what .dt.time holds: a datetime.time in isoformat, or NaT
StrOfTime(t) ==
    IF t.null THEN <<"N","a","T">>
    ELSE Two(t.h) \o <<":">> \o Two(t.m) \o <<":">> \o Two(t.s)
         \o (IF t.us = 0 THEN <<>> ELSE <<".">> \o Six(t.us))

\* lines 60-62 and 66-67 for the Time column
CleanTime(raw) ==
    LET first == ToDatetime(Column("object", raw), TRUE)
        filled == FillNa(first, ToDatetime(first, FALSE))
    IN [i \in DOMAIN raw |-> StrOfTime(filled.values[i])]

\* clean_data(df)
CleanData(table) ==
    LET times == CleanTime([i \in DOMAIN table |-> table[i].Time]) IN
    [i \in DOMAIN table |->
        [Time |-> times[i], GameID |-> table[i].GameID, PitchNo |-> table[i].PitchNo,
         RowID |-> table[i].GameID \o <<"_">> \o StrOfInt(table[i].PitchNo)]]

TimeSamples ==
    { <<"1","4",":","0","5",":","3","0",".","1","2","3","4","5","6">>,
      <<"1","4",":","0","5",":","3","0",".","5">>,
      <<"1","4",":","0","5",":","3","0">>,
      <<"0","0",":","0","0",":","0","0">>,
      <<"7",":","0","5",":","3","0">>,
      <<"2","5",":","0","0",":","0","0">>,
      <<"1","4",":","0","5">>,
      <<"1","4",":","0","5",":","3","0",".">>,
      <<"g","a","r","b","a","g","e">> }

RawRows == [Time : TimeSamples, GameID : {<<"G","1">>}, PitchNo : {7, 12}]

Clean ==
    /\ cpc = "raw"
    /\ cleaned' = CleanData(df)
    /\ cpc' = "cleaned"
    /\ UNCHANGED df
    /\ UNCHANGED <<loaderVars, ftpVars>>

\* ------------------------------------------------------------------ ftp_csv_downloader
FtpNames ==
    { Stem \o ExtCsv,
      <<"g","2">> \o ExtCsvUpper,
      Stem \o Sep \o UnverifiedMixed \o ExtCsv }

\* the directory listings of the server: each name once
RemoteListings ==
    { l \in SeqsUpTo(FtpNames, Cardinality(FtpNames)) :
        \A i, j \in DOMAIN l : l[i] = l[j] => i = j }

\* list_remote_csvs, after ftp.cwd
ListRemoteCsvs(names) ==
    SelectSeq(names, LAMBDA filename :
        EndsWith(Lower(filename), ExtCsv) /\ ~Contains(Lower(filename), MarkUnverified))

\* os.listdir(local_dir_target)
ListDir(dir) == { n \in DOMAIN dir : dir[n] # "absent" }

FtpEntry(kind, name, n) == [kind |-> kind, name |-> name, n |-> n]

\* main up to the listing: connect, then list_remote_csvs, which raises when the
\* remote directory cannot be entered; an empty listing ends the run
FtpStart ==
    /\ fpc = "idle"
    /\ runs < MaxRuns
    /\ runs' = runs + 1
    /\ \E cwdOk \in BOOLEAN :
          IF ~cwdOk
          THEN /\ ftpLog' = Append(ftpLog, FtpEntry("error", <<>>, 0))
               /\ fpc' = "idle"
               /\ UNCHANGED <<remote_csvs, local_files, fidx, downloaded>>
          ELSE IF ListRemoteCsvs(remote) = <<>>
          THEN /\ ftpLog' = Append(ftpLog, FtpEntry("no_csv_on_server", <<>>, 0))
               /\ fpc' = "idle"
               /\ remote_csvs' = <<>>
               /\ UNCHANGED <<local_files, fidx, downloaded>>
          ELSE /\ remote_csvs' = ListRemoteCsvs(remote)
               /\ local_files' = ListDir(localDir)
               /\ fidx' = 1
               /\ downloaded' = 0
               /\ fpc' = "loop"
               /\ UNCHANGED ftpLog
    /\ UNCHANGED <<remote, localDir, skipped>>
    /\ UNCHANGED <<loaderVars, cleanVars>>

\* lines 48-54: a name not in the snapshot is opened "wb" and retrieved; when the
\* transfer raises, the file stays as far as it was written and main logs the error
FtpDownload ==
    /\ fpc = "loop"
    /\ fidx <= Len(remote_csvs)
    /\ remote_csvs[fidx] \notin local_files
    /\ \E transfer \in {"ok", "raises"} :
          IF transfer = "ok"
          THEN /\ localDir' = [localDir EXCEPT ![remote_csvs[fidx]] = "complete"]
               /\ ftpLog' = Append(ftpLog, FtpEntry("downloaded", remote_csvs[fidx], 0))
               /\ downloaded' = downloaded + 1
               /\ fidx' = fidx + 1
               /\ fpc' = "loop"
          ELSE /\ localDir' = [localDir EXCEPT ![remote_csvs[fidx]] = "partial"]
               /\ ftpLog' = Append(ftpLog, FtpEntry("error", remote_csvs[fidx], 0))
               /\ fpc' = "idle"
               /\ UNCHANGED <<downloaded, fidx>>
    /\ UNCHANGED <<remote, local_files, remote_csvs, runs, skipped>>
    /\ UNCHANGED <<loaderVars, cleanVars>>

\* lines 55-56
FtpSkip ==
    /\ fpc = "loop"
    /\ fidx <= Len(remote_csvs)
    /\ remote_csvs[fidx] \in local_files
    /\ ftpLog' = Append(ftpLog, FtpEntry("already_exists", remote_csvs[fidx], 0))
    /\ skipped' = skipped \cup {[name |-> remote_csvs[fidx], state |-> localDir[remote_csvs[fidx]]]}
    /\ fidx' = fidx + 1
    /\ UNCHANGED <<fpc, remote, localDir, local_files, remote_csvs, downloaded, runs>>
    /\ UNCHANGED <<loaderVars, cleanVars>>

\* line 58 and main's lines 82-92
FtpFinish ==
    /\ fpc = "loop"
    /\ fidx > Len(remote_csvs)
    /\ ftpLog' = Append(ftpLog,
          IF downloaded = 0 THEN FtpEntry("nothing_new", <<>>, 0)
          ELSE FtpEntry("downloaded_count", <<>>, downloaded))
    /\ fpc' = "idle"
    /\ UNCHANGED <<remote, localDir, local_files, remote_csvs, fidx, downloaded, runs, skipped>>
    /\ UNCHANGED <<loaderVars, cleanVars>>

\* ------------------------------------------------------------------ specifications
LoaderOff ==
    /\ pc = "off" /\ rootState = "ok" /\ listing = <<>> /\ dbUp = TRUE
    /\ csv_files = <<>> /\ idx = 1 /\ total_rows = 0 /\ log = <<>> /\ hist = <<>>
    /\ dbRows = 0

CleanOff == cpc = "off" /\ df = <<>> /\ cleaned = <<>>

FtpOff ==
    /\ fpc = "off" /\ remote = <<>> /\ localDir = [n \in FtpNames |-> "absent"]
    /\ local_files = {} /\ remote_csvs = <<>> /\ fidx = 1 /\ downloaded = 0
    /\ runs = 0 /\ ftpLog = <<>> /\ skipped = {}

\* a run of csv_to_db.main
Init ==
    /\ pc = "start"
    /\ rootState \in {"ok", "missing", "unreadable"}
    /\ listing \in SeqsUpTo(LoaderNames, MaxFiles)
    /\ rootState = "missing" => listing = <<>>
    /\ dbUp \in BOOLEAN
    /\ csv_files = <<>> /\ idx = 1 /\ total_rows = 0 /\ log = <<>> /\ hist = <<>>
    /\ dbRows = 0
    /\ CleanOff /\ FtpOff

Next == Start \/ Discover \/ ProcessFile \/ EndBatch \/ Complete

Spec == Init /\ [][Next]_vars

\* main is one sequential flow: it always takes its next step
LiveSpec == Init /\ [][Next]_vars /\ WF_vars(Next)

\* list_csv_files over bounded directory listings
InitScan ==
    /\ pc = "scan"
    /\ rootState = "ok"
    /\ listing \in SeqsUpTo(FileNames, MaxDirFiles)
    /\ dbUp = TRUE
    /\ csv_files = <<>> /\ idx = 1 /\ total_rows = 0 /\ log = <<>> /\ hist = <<>>
    /\ dbRows = 0
    /\ CleanOff /\ FtpOff

NextScan == ScanOnly

SpecScan == InitScan /\ [][NextScan]_vars

\* clean_data over bounded tables
InitClean ==
    /\ cpc = "raw"
    /\ df \in SeqsUpTo(RawRows, MaxTableRows)
    /\ cleaned = <<>>
    /\ LoaderOff /\ FtpOff

NextClean == Clean

SpecClean == InitClean /\ [][NextClean]_vars

\* runs of the downloader against one remote directory
InitFtp ==
    /\ fpc = "idle"
    /\ remote \in RemoteListings
    /\ localDir = [n \in FtpNames |-> "absent"]
    /\ local_files = {} /\ remote_csvs = <<>> /\ fidx = 1 /\ downloaded = 0
    /\ runs = 0 /\ ftpLog = <<>> /\ skipped = {}
    /\ LoaderOff /\ CleanOff

NextFtp == FtpStart \/ FtpDownload \/ FtpSkip \/ FtpFinish

SpecFtp == InitFtp /\ [][NextFtp]_vars

\* ------------------------------------------------------------------ claims
CountKind(kind) == Cardinality({i \in DOMAIN log : log[i].kind = kind})

InsertFailureKinds == {"integrity_dupkey", "integrity_raw", "sqlalchemy_error", "unhandled_error"}

RECURSIVE InsertedRows(_)
InsertedRows(h) ==
    IF h = <<>> THEN 0
    ELSE (IF h[Len(h)].kind = "inserted" THEN h[Len(h)].rows ELSE 0)
         + InsertedRows(SubSeq(h, 1, Len(h) - 1))

\* C1: at the end of a run the reported total equals the sum of the row counts of
\* exactly the files whose insert succeeded; a file whose insert failed adds 0.
C1_TotalCountsOnlyInsertedRows ==
    pc = "done" =>
        /\ total_rows = InsertedRows(hist)
        /\ \A i \in DOMAIN hist :
              hist[i].kind \in InsertFailureKinds => hist[i].added = 0

\* C2: with a non-empty file list and any combination of per-file failures, the
\* run ends, every file of the list was processed in order, no fatal entry was
\* logged, and the last entry is the completion summary.
C2_EveryFileProcessedRunCompletes ==
    /\ <>(pc = "done")
    /\ [](pc = "done" /\ csv_files # <<>> =>
            /\ Len(hist) = Len(csv_files)
            /\ \A i \in DOMAIN hist : hist[i].file = i
            /\ CountKind("fatal") = 0
            /\ log[Len(log)] = Entry("complete", 0, Len(csv_files), total_rows))

C2_Witness ==
    /\ pc = "done"
    /\ Len(hist) = 3
    /\ hist[1].kind = "error_reading"
    /\ hist[2].kind = "integrity_raw"
    /\ hist[3].kind = "inserted"

\* C3: a file is cleaned and handed to insert only when its first row's Level is
\* exactly "D1"; with any other Level it is logged as skipped, nothing is cleaned
\* or inserted, and it adds 0 rows to the total.
C3_D1Gate ==
    \A i \in DOMAIN hist :
        /\ (hist[i].cleanCalled \/ hist[i].insertCalled) => hist[i].level = "D1"
        /\ hist[i].level \in Levels \ {"D1"} =>
              /\ hist[i].kind = "skipped_level"
              /\ ~hist[i].cleanCalled /\ ~hist[i].insertCalled
              /\ hist[i].added = 0 /\ hist[i].committed = 0
              /\ \E k \in DOMAIN log : log[k] = Entry("skipped_level", i, 0, 0)

C3_Witness ==
    /\ Len(hist) >= 2
    /\ hist[1].level = "d1" /\ hist[1].kind = "skipped_level"
    /\ hist[2].level = "D1" /\ hist[2].insertCalled

\* C4: every file name falls in exactly one class, tested on the lower-cased
\* name in the order unverified, player-tracking, csv, ignored; the returned list
\* is exactly the csv class in walk order, the two counters are the sizes of the
\* first two classes, and the four classes add up to the files seen.
C4_ClassOf(name) ==
    IF Contains(Lower(name), MarkUnverified) THEN "unverified"
    ELSE IF Contains(Lower(name), MarkPlayerPositioning)
            \/ Contains(Lower(name), MarkPlayerTracking) THEN "player"
    ELSE IF EndsWith(Lower(name), ExtCsv) THEN "included"
    ELSE "ignored"

C4_Count(class) == Cardinality({i \in DOMAIN listing : C4_ClassOf(listing[i]) = class})

C4_ScannerPartition ==
    pc = "scanned" =>
        /\ csv_files = SelectSeq(listing, LAMBDA name : C4_ClassOf(name) = "included")
        /\ log = << Entry("files_skipped", 0, C4_Count("unverified"), C4_Count("player")),
                    Entry("total_csv", 0, C4_Count("included"), 0) >>
        /\ log[1].n + log[1].m + Len(csv_files) + C4_Count("ignored") = Len(listing)

C4_Witness ==
    /\ pc = "scanned"
    /\ listing = << UnverifiedMixed \o Sep \o MarkPlayerTracking \o ExtCsv,
                    <<"G","1">> \o ExtCsvUpper >>
    /\ csv_files = << <<"G","1">> \o ExtCsvUpper >>
    /\ log[1].n = 1 /\ log[1].m = 0

\* C5: with a missing or unreadable root the run aborts with a single fatal
\* entry, does not report "No CSV files found", and reads no file.
C5_UnreadableRootIsFatal ==
    (pc = "done" /\ rootState # "ok") =>
        /\ CountKind("fatal") = 1
        /\ CountKind("no_csv_found") = 0
        /\ hist = <<>>

\* C6: when the destination connection cannot be established, no file is read,
\* cleaned or inserted, exactly one fatal entry is logged and no per-file error
\* entry, and nothing is added to the total.
C6_ConnectionFailureIsFatal ==
    (pc = "done" /\ ~dbUp /\ csv_files # <<>>) =>
        /\ hist = <<>>
        /\ CountKind("fatal") = 1
        /\ \A k \in DOMAIN log : log[k].kind \notin InsertFailureKinds
        /\ total_rows = 0

\* C7: a Time in the form HH:MM:SS.ffffff becomes that time of day with its
\* sub-second part, one that fails that form but is HH:MM:SS becomes that time of
\* day, anything else becomes null; the number of rows is unchanged. (The cleaned
\* column holds the values as text: a time in isoformat, null as NaT.)
C7_TimeMapping ==
    cpc = "cleaned" =>
        /\ Len(cleaned) = Len(df)
        /\ \A i \in DOMAIN df :
              cleaned[i].Time =
                 StrOfTime(IF ~Strptime(df[i].Time, TRUE).null THEN Strptime(df[i].Time, TRUE)
                           ELSE IF ~Strptime(df[i].Time, FALSE).null
                                THEN Strptime(df[i].Time, FALSE)
                           ELSE NaT)

C9_EmptyListEndsQuietly ==
    (pc \notin {"start", "discover"} /\ csv_files = <<>>) =>
        /\ pc = "done"
        /\ log[Len(log)] = Entry("no_csv_found", 0, 0, 0)
        /\ CountKind("no_csv_found") = 1
        /\ CountKind("fatal") = 0
        /\ hist = <<>> /\ dbRows = 0 /\ total_rows = 0

C9_Witness ==
    /\ pc = "done"
    /\ rootState = "ok"
    /\ Len(listing) = 2
    /\ csv_files = <<>>
    /\ log[Len(log)].kind = "no_csv_found"

\* C10: a file printed as "Already exists" was completely retrieved by an
\* earlier run.
C10_SkippedFilesAreComplete ==
    \A f \in skipped : f.state = "complete"

====
